---- MODULE Spec2Model ----
(***************************************************************************)
(* Model of waylog-journal/scripts/waylog_journal.py: the incremental,     *)
(* resumable merge of .waylog/history transcripts into the sessions ledger *)
(* (sessions.md) and the condensed journal (summary.md).                   *)
(*                                                                         *)
(* Text is a sequence of tokens.  A token stands for a piece of text that  *)
(* the program only ever handles as a whole: a newline, one of the marker  *)
(* comments, the header line of an entry, its metadata comment, the        *)
(* bullet lines rendered from one collaborator answer, or a stretch of     *)
(* human-written prose.                                                    *)
(***************************************************************************)
EXTENDS Integers, Sequences, FiniteSets, TLC

\* ------------------------------------------------------------------ bounds
NItems == 2     \* number of transcript files in .waylog/history
MaxRuns == 2    \* number of invocations of main in one behaviour
MaxEdits == 1   \* number of transcript rewrites between invocations

\* ------------------------------------------------------------------ tokens
\* A token is a number: the kind of text, then three digits a, b, c that say
\* what it was rendered from.
Tok(k, a, b, c) == k * 1000 + a * 100 + b * 10 + c
KindOf(t) == t \div 1000
FieldA(t) == (t \div 100) % 10
FieldB(t) == (t \div 10) % 10
FieldC(t) == t % 10

NL == Tok(1, 0, 0, 0)
MANAGED_BEGIN == Tok(2, 0, 0, 0)
MANAGED_END == Tok(3, 0, 0, 0)
ENTRY_END == Tok(4, 0, 0, 0)
JOURNAL_BEGIN == Tok(5, 0, 0, 0)
JOURNAL_END == Tok(6, 0, 0, 0)
MANUAL_BEGIN == Tok(7, 0, 0, 0)
MANUAL_END == Tok(8, 0, 0, 0)
\* a stretch of prose without newline, marker or "## " prefix
Prose(n) == Tok(9, n, 0, 0)
\* "## {started} -- {provider} -- {title}": all three come from the transcript
Header(rel, content) == Tok(10, rel, content, 0)
IsHeader(t) == KindOf(t) = 10
\* "<!-- waylog-entry: file=.. sha256=.. updated_at=.. status=.. -->"
\* a = file (0: key absent), b = sha256 (0: key absent),
\* c = status (0: key absent, 1: ok, 2: error)
Meta(file, sha, st) == Tok(11, file, sha, st)
IsMeta(t) == KindOf(t) = 11
\* the "- Source: ..", "- Updated: ..", "- Messages: .." lines of the
\* transcript (rel, content) and the relevance and section bullets rendered
\* from the collaborator answer d
Bullets(rel, content, d) == Tok(12, rel, content, d)
IsBullets(t) == KindOf(t) = 12
\* "<!-- waylog-journal-meta: sessions_sha256=" and " -->", with the hex
\* digest between them
JOURNAL_META_OPEN == Tok(13, 0, 0, 0)
JOURNAL_META_CLOSE == Tok(14, 0, 0, 0)
\* a credential in a text, and what a rule of REDACTIONS puts in its place
SECRET == Tok(15, 0, 0, 0)
REDACTED == Tok(16, 0, 0, 0)
\* the words of the credential rule: a key name ("password"), the two
\* separators, a character that ends a value, and "[REDACTED]"
KEY == Tok(17, 0, 0, 0)
COLON == Tok(18, 0, 0, 0)
EQ == Tok(19, 0, 0, 0)
COMMA == Tok(20, 0, 0, 0)
REDACTED_VALUE == Tok(22, 0, 0, 0)
\* an email address and "[REDACTED_EMAIL]"
EMAIL == Tok(21, 0, 0, 0)
REDACTED_EMAIL == Tok(23, 0, 0, 0)
\* "/Users/<name>/": name 0 is the literal "<user>"
HomeOf(name) == Tok(24, name, 0, 0)
IsHome(t) == KindOf(t) = 24
\* a character of a hex digest: digests are texts of these
Hex(t) == Tok(100, 0, 0, 0) + t
IsHex(t) == t >= Tok(100, 0, 0, 0)

\* the text that stands for "no such file"
ENOENT == <<Tok(99, 0, 0, 0)>>

\* ------------------------------------------------------- collaborator data
\* what `codex exec` can do for one request
Failures == {"missing", "nonzero", "badjson"}
\* answers that json_load_loose returns as a dict: two different complete
\* summaries
Answers == {"summary1", "summary2"}
\* the number that stands for the answer in a token
DataOf(answer) == IF answer = "summary1" THEN 1 ELSE 2
\* the dict main substitutes when the call raised (highlights =
\* [FALLBACK_HIGHLIGHT])
FALLBACK_HIGHLIGHT == 9

\* ------------------------------------------------------------ str methods
IsSpace(t) == t = NL

\* the position of the first tok at or after position i, 0 if there is none
RECURSIVE find(_, _, _)
find(text, tok, i) ==
  IF i > Len(text) THEN 0
  ELSE IF text[i] = tok THEN i
  ELSE find(text, tok, i + 1)

IndexOf(text, tok) == find(text, tok, 1)

Contains(text, tok) == IndexOf(text, tok) # 0

\* str.strip()
RECURSIVE lstrip(_)
lstrip(text) ==
  IF text # <<>> /\ IsSpace(Head(text)) THEN lstrip(Tail(text)) ELSE text

RECURSIVE rstrip(_)
rstrip(text) ==
  IF text # <<>> /\ IsSpace(text[Len(text)])
  THEN rstrip(SubSeq(text, 1, Len(text) - 1))
  ELSE text

strip(text) == rstrip(lstrip(text))

\* str.splitlines()
RECURSIVE splitlines(_)
splitlines(text) ==
  IF text = <<>> THEN <<>>
  ELSE LET p == IndexOf(text, NL) IN
       IF p = 0 THEN <<text>>
       ELSE <<SubSeq(text, 1, p - 1)>> \o splitlines(SubSeq(text, p + 1, Len(text)))

\* sep.join(parts)
RECURSIVE join(_, _)
join(sep, parts) ==
  IF parts = <<>> THEN <<>>
  ELSE IF Len(parts) = 1 THEN parts[1]
  ELSE parts[1] \o sep \o join(sep, Tail(parts))

endswith_newline(text) == text # <<>> /\ text[Len(text)] = NL


\* ------------------------------------------------- managed-region protocol
\* r = "none": the function returns None; r = "raise": the tuple unpacking
\* of rest.split(end, 1) raises ValueError; r = "ok": (before, middle, after)
extract_between(text, begin, end) ==
  IF ~Contains(text, begin) \/ ~Contains(text, end)
  THEN [r |-> "none", before |-> <<>>, middle |-> <<>>, after |-> <<>>]
  ELSE LET p == IndexOf(text, begin)
           before == SubSeq(text, 1, p - 1)
           rest == SubSeq(text, p + 1, Len(text))
           q == IndexOf(rest, end)
       IN IF q = 0
          THEN [r |-> "raise", before |-> <<>>, middle |-> <<>>, after |-> <<>>]
          ELSE [r |-> "ok", before |-> before,
                middle |-> SubSeq(rest, 1, q - 1),
                after |-> SubSeq(rest, q + 1, Len(rest))]

\* ------------------------------------------------------------- entry codec
NoMeta == 0

\* the metadata token if line.strip() is one metadata comment that carries
\* the keys file and sha256, NoMeta (None) otherwise
\* a parser that takes every metadata comment, whatever keys it carries
parse_entry_meta_of_any_comment(line) ==
  LET s == strip(line) IN
  IF Len(s) = 1 /\ IsMeta(s[1]) THEN s[1] ELSE NoMeta

parse_entry_meta(line) ==
  LET s == strip(line) IN
  IF Len(s) = 1 /\ IsMeta(s[1]) /\ FieldA(s[1]) # 0 /\ FieldB(s[1]) # 0
  THEN s[1] ELSE NoMeta

StatusName(c) == IF c = 1 THEN "ok" ELSE IF c = 2 THEN "error" ELSE ""
StatusCode(st) == IF st = "ok" THEN 1 ELSE IF st = "error" THEN 2 ELSE 0

EmptyMap == [x \in {} |-> <<>>]
Put(m, key, v) == [x \in (DOMAIN m) \cup {key} |-> IF x = key THEN v ELSE m[x]]

\* the index of the line after the block whose body starts at line i: the
\* inner while loop of parse_existing_entries
RECURSIVE block_end(_, _)
block_end(lines, i) ==
  IF i > Len(lines) THEN i
  ELSE IF strip(lines[i]) = <<ENTRY_END>> THEN i + 1
  ELSE block_end(lines, i + 1)

\* FALLBACK_HIGHLIGHT in block
has_fallback(block) ==
  \E i \in 1..Len(block) : IsBullets(block[i]) /\ FieldC(block[i]) = FALLBACK_HIGHLIGHT

\* the path of a transcript whose file name holds a space, and the text of
\* that path up to the space
SpacedPath == 4
UpToSpace == 5
\* meta["file"] after `for token in body.split()`: a value ends at the first
\* whitespace
file_of(meta) == IF FieldA(meta) = SpacedPath THEN UpToSpace ELSE FieldA(meta)

\* a default that ignores the body of the block
entry_status_without_default(meta, block) ==
  IF FieldC(meta) # 0 THEN StatusName(FieldC(meta)) ELSE "ok"

\* status = meta.get("status", ""), and the default of an older block
entry_status(meta, block) ==
  IF FieldC(meta) # 0 THEN StatusName(FieldC(meta))
  ELSE IF has_fallback(block) THEN "error" ELSE "ok"

RECURSIVE parse_from(_, _, _)
parse_from(lines, i, entries) ==
  IF i > Len(lines) THEN entries
  ELSE IF /\ lines[i] # <<>>
          /\ IsHeader(lines[i][1])
          /\ i + 1 <= Len(lines)
          /\ parse_entry_meta(lines[i + 1]) # NoMeta
       THEN LET meta == parse_entry_meta(lines[i + 1])
                j == block_end(lines, i + 2)
                block == join(<<NL>>, SubSeq(lines, i, j - 1))
                status == entry_status(meta, block)
            IN parse_from(lines, j,
                 Put(entries, file_of(meta),
                     [rel_path |-> file_of(meta), sha256 |-> FieldB(meta),
                      status |-> status, block |-> block]))
       ELSE parse_from(lines, i + 1, entries)

parse_existing_entries(managed_body) ==
  parse_from(splitlines(managed_body), 1, EmptyMap)

\* a metadata comment with the digest of other content than the block's
render_entry_with_other_sha(session, sha, data, status) ==
  << Header(session.rel_path, session.content), NL,
     Meta(session.rel_path, sha + 1, StatusCode(status)), NL,
     Bullets(session.rel_path, session.content, data), NL,
     ENTRY_END >>

\* a metadata comment without the sha256 key
render_entry_without_sha(session, sha, data, status) ==
  << Header(session.rel_path, session.content), NL,
     Meta(session.rel_path, 0, StatusCode(status)), NL,
     Bullets(session.rel_path, session.content, data), NL,
     ENTRY_END >>

\* session = [rel_path, content]; model and reasoning_effort are left at
\* their default None
\* an answer one of whose highlights quotes the end marker of the ledger
QuotesMarker == 3
\* what follows "- " in a bullet besides the answer's own words:
\* sanitize_text(item.strip()) keeps a marker the item quotes
quoted(data) == IF data = QuotesMarker THEN <<MANAGED_END>> ELSE <<>>

render_entry(session, sha, data, status) ==
  << Header(session.rel_path, session.content), NL,
     Meta(session.rel_path, sha, StatusCode(status)), NL,
     Bullets(session.rel_path, session.content, data) >>
  \o quoted(data) \o << NL, ENTRY_END >>

\* --------------------------------------------------------------- documents
build_default_sessions_file ==
  << Prose(1), NL, NL, Prose(2), NL, NL, MANAGED_BEGIN, NL, MANAGED_END, NL >>

RECURSIVE body_blocks(_, _)
body_blocks(history_order, blocks) ==
  IF history_order = <<>> THEN <<>>
  ELSE (IF Head(history_order) \in DOMAIN blocks
        THEN <<blocks[Head(history_order)]>> ELSE <<>>)
       \o body_blocks(Tail(history_order), blocks)

\* a rendering that forgets the text around the managed region
render_summary_without_prose(before, after, history_order, blocks) ==
  LET new_managed_body == strip(join(<<NL, NL>>, body_blocks(history_order, blocks)))
  IN <<MANAGED_BEGIN, NL>>
     \o (IF new_managed_body # <<>> THEN new_managed_body \o <<NL>> ELSE <<>>)
     \o <<MANAGED_END, NL>>

\* a rendering that keeps the block of every path, found or not
render_summary_of_every_block(before, after, history_order, blocks) ==
  LET every == SelectSeq([rel \in 1..9 |-> IF rel \in DOMAIN blocks THEN blocks[rel] ELSE <<>>],
                         LAMBDA block : block # <<>>)
      new_managed_body == strip(join(<<NL, NL>>, every))
  IN before \o <<MANAGED_BEGIN, NL>>
     \o (IF new_managed_body # <<>> THEN new_managed_body \o <<NL>> ELSE <<>>)
     \o <<MANAGED_END>> \o after

\* a rendering that forgets the end marker
render_summary_without_end(before, after, history_order, blocks) ==
  LET new_managed_body == strip(join(<<NL, NL>>, body_blocks(history_order, blocks)))
  IN before \o <<MANAGED_BEGIN, NL>>
     \o (IF new_managed_body # <<>> THEN new_managed_body \o <<NL>> ELSE <<>>)
     \o after

render_summary(before, after, history_order, blocks) ==
  LET new_managed_body == strip(join(<<NL, NL>>, body_blocks(history_order, blocks)))
  IN before \o <<MANAGED_BEGIN, NL>>
     \o (IF new_managed_body # <<>> THEN new_managed_body \o <<NL>> ELSE <<>>)
     \o <<MANAGED_END>> \o after

\* a write whose temporary file never replaces the target
write_atomic_without_replace(files, path, content) == files

\* the file system after tmp_path.replace(path)
write_atomic(files, path, content) ==
  [files EXCEPT ![path] = content \o (IF endswith_newline(content) THEN <<>> ELSE <<NL>>)]

\* ------------------------------------------------------------ fingerprints
Contents == {1, 2}
\* a digest that does not depend on the content
sha256_file_of_nothing(content) == 5

\* a digest is a digit of the metadata token: no content hashes to 0
sha256_file(content) == 5 + content


\* the digest of a text: hex characters, never none, other for other text
sha256_text(text) == <<Hex(0)>> \o [i \in 1..Len(text) |-> Hex(text[i])]

\* --------------------------------------------------------------- redaction
\* re.sub(r"/Users/[^/]+/", "/Users/<user>/", text)
path_pass(text) ==
  [i \in 1..Len(text) |-> IF IsHome(text[i]) THEN HomeOf(0) ELSE text[i]]

\* a placeholder that keeps the text it stands for
placeholder_with_match(t) == <<REDACTED, t>>
\* the replacement of a match of one of the first six rules of REDACTIONS
placeholder(t) == <<REDACTED>>

\* the first six rules of REDACTIONS: private key, API key, AWS key,
\* GitHub token, Slack token, JWT
RECURSIVE pattern_pass(_)
pattern_pass(text) ==
  IF text = <<>> THEN <<>>
  ELSE (IF Head(text) = SECRET THEN placeholder(Head(text)) ELSE <<Head(text)>>)
       \o pattern_pass(Tail(text))

\* the first position at or after i that holds no whitespace
RECURSIVE skip_space(_, _)
skip_space(text, i) ==
  IF i <= Len(text) /\ IsSpace(text[i]) THEN skip_space(text, i + 1) ELSE i
\* [^\s,;]
IsValueChar(t) == ~IsSpace(t) /\ t # COMMA
\* the first position at or after i that holds no character of a value
RECURSIVE skip_value(_, _)
skip_value(text, i) ==
  IF i <= Len(text) /\ IsValueChar(text[i]) THEN skip_value(text, i + 1) ELSE i
\* the position after the match of the credential rule that starts at i, 0
\* if none starts there: key, \s*, [:=], \s*, ([^\s,;]+)
kv_match(text, i) ==
  IF text[i] # KEY THEN 0
  ELSE LET j == skip_space(text, i + 1) IN
       IF j > Len(text) \/ text[j] \notin {COLON, EQ} THEN 0
       ELSE LET k == skip_space(text, j + 1)
                m == skip_value(text, k)
            IN IF m = k THEN 0 ELSE m

\* the credential rule: every match becomes r"\1=[REDACTED]"
RECURSIVE kv_from(_, _)
kv_from(text, i) ==
  IF i > Len(text) THEN <<>>
  ELSE LET m == kv_match(text, i) IN
       IF m = 0 THEN <<text[i]>> \o kv_from(text, i + 1)
       ELSE <<KEY, EQ, REDACTED_VALUE>> \o kv_from(text, m)
kv_pass(text) == kv_from(text, 1)

\* the email rule
email_pass(text) ==
  [i \in 1..Len(text) |-> IF text[i] = EMAIL THEN REDACTED_EMAIL ELSE text[i]]

\* the path rule, then the rules of REDACTIONS in their order
sanitize_text(text) == email_pass(kv_pass(pattern_pass(path_pass(text))))

\* the categories of the rules of REDACTIONS that match somewhere in text
detect_sensitive_categories(text) ==
  (IF Contains(text, SECRET) THEN {"pattern"} ELSE {})
  \cup (IF \E i \in 1..Len(text) : kv_match(text, i) # 0
        THEN {"credential_kv"} ELSE {})
  \cup (IF Contains(text, EMAIL) THEN {"email"} ELSE {})

\* ----------------------------------------------------------------- journal
\* answers of the condensation call that carry a journal_markdown string
JournalAnswers == {"journal1", "journal2"}
\* the journal_markdown string of an answer; the second echoes a credential
journal_markdown(answer) ==
  IF answer = "journal1" THEN <<Prose(5)>> ELSE <<Prose(6), SECRET>>

extract_between_optional(text, begin, end) ==
  LET ex == extract_between(text, begin, end) IN
  IF ex.r = "none"
  THEN [r |-> "ok", before |-> text, middle |-> <<>>, after |-> <<>>]
  ELSE ex

\* [r, body]: r = "raise" when extract_between raises
extract_manual_body(text) ==
  LET ex == extract_between(text, MANUAL_BEGIN, MANUAL_END) IN
  IF ex.r = "none" THEN [r |-> "ok", body |-> <<>>]
  ELSE IF ex.r = "raise" THEN [r |-> "raise", body |-> <<>>]
  ELSE [r |-> "ok", body |-> strip(ex.middle)]

\* JOURNAL_META_RE.match(line.strip())
is_journal_meta(line) ==
  LET s == strip(line) IN
  /\ Len(s) >= 3
  /\ s[1] = JOURNAL_META_OPEN /\ s[Len(s)] = JOURNAL_META_CLOSE
  /\ \A i \in 2..(Len(s) - 1) : IsHex(s[i])

\* [r, sha]: r = "none" for None, "raise" when extract_between raises
extract_journal_sessions_sha(text) ==
  LET ex == extract_between(text, JOURNAL_BEGIN, JOURNAL_END)
      body == splitlines(ex.middle)
      hits == {i \in 1..Len(body) : is_journal_meta(body[i])}
  IN IF ex.r # "ok" THEN [r |-> ex.r, sha |-> <<>>]
     ELSE IF hits = {} THEN [r |-> "none", sha |-> <<>>]
     ELSE LET i == CHOOSE h \in hits : \A g \in hits : h <= g
          IN [r |-> "ok",
              sha |-> SubSeq(strip(body[i]), 2, Len(strip(body[i])) - 1)]

build_default_journal_file(manual_body) ==
  join(<<NL>>,
       << <<Prose(7)>>, <<>>, <<Prose(8)>>, <<>>, <<JOURNAL_BEGIN>>, <<JOURNAL_END>>,
          <<>>, <<Prose(9)>>, <<MANUAL_BEGIN>> >>
       \o (IF manual_body # <<>> THEN <<manual_body>> ELSE <<>>)
       \o << <<MANUAL_END>>, <<>> >>)

\* [r, text]: r = "raise" when extract_manual_body raises
render_journal_file(journal_body, sessions_sha, previous_text) ==
  LET manual == extract_manual_body(previous_text)
      base == build_default_journal_file(manual.body)
      ex == extract_between_optional(base, JOURNAL_BEGIN, JOURNAL_END)
      managed_lines == << <<JOURNAL_META_OPEN>> \o sessions_sha \o <<JOURNAL_META_CLOSE>>,
                          strip(journal_body) >>
      managed == strip(join(<<NL>>, SelectSeq(managed_lines, LAMBDA l : strip(l) # <<>>)))
  IN IF manual.r = "raise" THEN [r |-> "raise", text |-> <<>>]
     ELSE [r |-> "ok",
           text |-> ex.before \o <<JOURNAL_BEGIN, NL>>
                    \o (IF managed # <<>> THEN managed \o <<NL>> ELSE <<>>)
                    \o <<JOURNAL_END>> \o ex.after]

\* ------------------------------------------------------------------- state
VARIABLES
  fs,                \* the files: fs.sessions (ledger), fs.journal
  history,           \* .waylog/history: transcript -> content
  pc,                \* where main is: "idle", "loop", "call", "journal", "jcall"
  args,              \* the parsed command line of the run
  before, after,     \* the ledger text around the managed region
  existing_entries,  \* parse_existing_entries(managed_body)
  updates, kept,     \* the partition pass: paths to update, count kept
  blocks,            \* rel_path -> block text
  idx,               \* position of the per-item loop in history_files
  completed,         \* the loop's progress counter
  exit,              \* exit status of the last run, -1 before the first
  report,            \* what the last run said about the journal
  runs, edits,       \* how many runs were started, transcripts rewritten
  called,            \* transcripts the run called run_codex_summary for
  done,              \* transcripts whose block the run rendered and wrote
  failed,            \* those of done whose call raised
  last,              \* the last collaborator outcome of the run, with its item
  nwrites,           \* write_atomic calls of the run: [sessions, journal]
  start,             \* fs and history when the run started
  prev,              \* how the previous run started and ended
  wpc,               \* where a write_atomic call under observation is
  wargs,             \* its arguments: [path, content]
  tmp,               \* the temporary file next to the target
  target_was,        \* the target file when write_atomic was called
  input,             \* a function under observation and its arguments
  output             \* <<>> until the function returns, then <<its result>>

progVars == <<pc, args, before, after, existing_entries, updates, kept, blocks,
              idx, completed, exit, report>>
ghostVars == <<runs, edits, called, done, failed, last, nwrites, start, prev>>
writerVars == <<wpc, wargs, tmp, target_was>>
unitVars == <<input, output>>
vars == <<fs, history, progVars, ghostVars, writerVars, unitVars>>

Items == 1..NItems
\* sorted(history_dir.glob("*.md"), key=name): transcripts are numbered in
\* name order
history_files == [i \in Items |-> i]
history_order == history_files

NoArgs == [force |-> FALSE, dry_run |-> FALSE, no_journal |-> FALSE,
           force_journal |-> FALSE]
ArgSets == [force : BOOLEAN, dry_run : BOOLEAN, no_journal : BOOLEAN,
            force_journal : BOOLEAN]
NoLast == [item |-> 0, outcome |-> "none"]
NoPrev == [exit |-> -1, dry_run |-> FALSE, done |-> {}, failed |-> {}, idx |-> 0,
           history |-> <<>>]
NoWrite == [path |-> "none", content |-> <<>>]
\* no write_atomic call is observed step by step
WriterIdle ==
  wpc = "none" /\ wargs = NoWrite /\ tmp = ENOENT /\ target_was = ENOENT
NoInput == [fn |-> "none", text |-> <<>>]
\* no function is observed on its own
UnitIdle == input = NoInput /\ output = <<>>

\* ledger files a first run can find
InitialLedgers ==
  { ENOENT,
    <<>>,
    <<Prose(3), NL>>,
    <<Prose(3), NL, MANAGED_BEGIN, NL>>,
    <<MANAGED_END, NL, MANAGED_BEGIN, NL>>,
    <<Prose(3), NL, MANAGED_BEGIN, NL, MANAGED_END, NL, Prose(4)>> }

Init ==
  /\ fs \in [sessions : InitialLedgers, journal : {ENOENT}]
  /\ history \in [Items -> {1}]
  /\ pc = "idle"
  /\ args = NoArgs
  /\ before = <<>> /\ after = <<>>
  /\ existing_entries = EmptyMap
  /\ updates = <<>> /\ kept = 0
  /\ blocks = EmptyMap
  /\ idx = 0 /\ completed = 0
  /\ exit = -1
  /\ report = "none"
  /\ runs = 0 /\ edits = 0
  /\ called = {} /\ done = {} /\ failed = {}
  /\ last = NoLast
  /\ nwrites = [sessions |-> 0, journal |-> 0]
  /\ start = [sessions |-> fs.sessions, journal |-> fs.journal, history |-> history]
  /\ prev = NoPrev
  /\ WriterIdle
  /\ UnitIdle


\* ----------------------------------------------------------- main: loading
\* path.read_text() if path.exists() else ""
read_text(files, path) == IF files[path] = ENOENT THEN <<>> ELSE files[path]

\* no refusal
markers_missing_never(sessions_text) == FALSE

\* the refusal to overwrite a ledger without markers
markers_missing(sessions_text) ==
  sessions_text # <<>> /\ extract_between(sessions_text, MANAGED_BEGIN, MANAGED_END).r = "none"

\* (before, managed_body, after) of the ledger, or of the default document
load_sessions(sessions_text) ==
  LET text == IF sessions_text = <<>> THEN build_default_sessions_file ELSE sessions_text
      ex == extract_between(text, MANAGED_BEGIN, MANAGED_END)
  IN IF ex.r = "none"
     THEN [r |-> "ok", before |-> <<>>, middle |-> <<>>, after |-> <<>>]
     ELSE ex

parse_history_session(hist, rel) == [rel_path |-> rel, content |-> hist[rel]]

\* the test of the partition pass
partition_keeps(entries, rel, sha, force) ==
  /\ rel \in DOMAIN entries
  /\ entries[rel].sha256 = sha
  /\ entries[rel].status = "ok"
  /\ ~force

\* a loop without the test
loop_skips_never(entries, rel, sha, force) == FALSE

\* the loop test without its status clause
loop_skips_error_entries(entries, rel, sha, force) ==
  /\ rel \in DOMAIN entries
  /\ entries[rel].sha256 = sha
  /\ ~force

\* the test of the processing loop
loop_skips(entries, rel, sha, force) ==
  /\ rel \in DOMAIN entries
  /\ entries[rel].sha256 = sha
  /\ entries[rel].status = "ok"
  /\ ~force

partition_updates(entries, hist, force) ==
  SelectSeq(history_files,
            LAMBDA rel : ~partition_keeps(entries, rel, sha256_file(hist[rel]), force))

sessions_body_of(order, blks) == strip(join(<<NL, NL>>, body_blocks(order, blks)))

\* a decision that ignores --force-journal
needs_journal_unforced(force_journal, sessions_sha, journal_sha) ==
  sessions_sha # journal_sha.sha

\* args.force_journal or sessions_sha != (journal_sha or "")
needs_journal(force_journal, sessions_sha, journal_sha) ==
  force_journal \/ sessions_sha # journal_sha.sha

\* the process ends
Ends(code, rpt) == pc' = "idle" /\ exit' = code /\ report' = rpt

NoLocals ==
  /\ before' = <<>> /\ after' = <<>> /\ existing_entries' = EmptyMap
  /\ updates' = <<>> /\ kept' = 0 /\ blocks' = EmptyMap
  /\ idx' = 0 /\ completed' = 0

\* main from the reading of the ledger to the start of the per-item loop;
\* dry_run is the value `if args.dry_run:` finds
StartWith(a, dry_run) ==
  /\ pc = "idle"
  /\ UNCHANGED <<writerVars, unitVars>>
  /\ runs < MaxRuns
  /\ runs' = runs + 1
  /\ args' = a
  /\ start' = [sessions |-> fs.sessions, journal |-> fs.journal, history |-> history]
  /\ prev' = [exit |-> exit, dry_run |-> args.dry_run, done |-> done,
              failed |-> failed, idx |-> idx, history |-> start.history]
  /\ called' = {} /\ done' = {} /\ failed' = {} /\ last' = NoLast
  /\ nwrites' = [sessions |-> 0, journal |-> 0]
  /\ UNCHANGED <<fs, history, edits>>
  /\ LET sessions_text == read_text(fs, "sessions")
         ld == load_sessions(sessions_text)
         entries == parse_existing_entries(ld.middle)
         upd == partition_updates(entries, history, a.force)
         journal_sha == extract_journal_sessions_sha(read_text(fs, "journal"))
     IN IF markers_missing(sessions_text)
        THEN Ends(2, "none") /\ NoLocals
        ELSE IF ld.r = "raise"
        THEN Ends(1, "none") /\ NoLocals
        ELSE
          /\ before' = ld.before /\ after' = ld.after
          /\ existing_entries' = entries
          /\ updates' = upd /\ kept' = Len(history_files) - Len(upd)
          /\ completed' = 0
          /\ IF dry_run
             THEN /\ blocks' = EmptyMap /\ idx' = 0
                  /\ IF a.no_journal THEN Ends(0, "none")
                     ELSE IF journal_sha.r = "raise" THEN Ends(1, "none")
                     ELSE IF needs_journal(a.force_journal, sha256_text(strip(ld.middle)),
                                           journal_sha)
                     THEN Ends(0, "Would regenerate journal.")
                     ELSE Ends(0, "Journal up-to-date.")
             ELSE /\ blocks' = [rel \in DOMAIN entries |-> entries[rel].block]
                  /\ idx' = 1
                  /\ pc' = "loop" /\ exit' = -1 /\ report' = "none"

\* a run that does not return at `if args.dry_run:`
Start_without_dry_run(a) == StartWith(a, FALSE)

Start(a) == StartWith(a, a.dry_run)


\* ------------------------------------------------- main: the per-item loop
\* what json_load_loose can hand back besides a summary dict: JSON that is
\* no object
SummaryOutcomes == Failures \cup Answers \cup {"nonobj"}

\* an except clause for RuntimeError alone
caught_runtime_error_only(outcome) == outcome = "nonzero"

\* the exceptions of run_codex_summary that `except Exception` turns into
\* the fallback data
caught(outcome) == outcome \in Failures

\* an iteration that ends at `continue`
LoopSkip ==
  /\ pc = "loop" /\ idx <= Len(history_files)
  /\ UNCHANGED <<writerVars, unitVars>>
  /\ loop_skips(existing_entries, history_files[idx],
                sha256_file(history[history_files[idx]]), args.force)
  /\ idx' = idx + 1
  /\ UNCHANGED <<fs, history, pc, args, before, after, existing_entries, updates,
                 kept, blocks, completed, exit, report, ghostVars>>

\* an iteration up to the blocking subprocess.run of run_codex_summary
LoopInvoke ==
  /\ pc = "loop" /\ idx <= Len(history_files)
  /\ UNCHANGED <<writerVars, unitVars>>
  /\ ~loop_skips(existing_entries, history_files[idx],
                 sha256_file(history[history_files[idx]]), args.force)
  /\ completed' = completed + 1
  /\ pc' = "call"
  /\ called' = called \cup {history_files[idx]}
  /\ last' = NoLast
  /\ UNCHANGED <<fs, history, args, before, after, existing_entries, updates, kept,
                 blocks, idx, exit, report, runs, edits, done, failed, nwrites,
                 start, prev>>

\* the rest of the iteration: the collaborator returned or raised
SummaryReturn(outcome) ==
  /\ pc = "call"
  /\ UNCHANGED <<writerVars, unitVars>>
  /\ LET rel == history_files[idx]
         session == parse_history_session(history, rel)
         sha == sha256_file(history[rel])
         status == IF outcome \in Answers THEN "ok" ELSE "error"
         data == IF outcome \in Answers THEN DataOf(outcome) ELSE FALLBACK_HIGHLIGHT
         blks == Put(blocks, rel, render_entry(session, sha, data, status))
     IN /\ last' = [item |-> rel, outcome |-> outcome]
        /\ IF outcome \in Answers \/ caught(outcome)
           THEN /\ blocks' = blks
                /\ fs' = write_atomic(fs, "sessions",
                           render_summary(before, after, history_order, blks))
                /\ nwrites' = [nwrites EXCEPT !.sessions = @ + 1]
                /\ done' = done \cup {rel}
                /\ failed' = IF status = "error" THEN failed \cup {rel} ELSE failed
                /\ idx' = idx + 1
                /\ pc' = "loop"
                /\ UNCHANGED <<exit, report>>
           ELSE /\ Ends(1, "none")
                /\ UNCHANGED <<fs, blocks, idx, done, failed, nwrites>>
  /\ UNCHANGED <<history, args, before, after, existing_entries, updates, kept,
                 completed, runs, edits, called, start, prev>>

\* a handler that writes the ledger once more before it returns
KeyboardInterrupt_with_flush ==
  /\ pc \in {"loop", "call"}
  /\ UNCHANGED <<writerVars, unitVars>>
  /\ Ends(130, "none")
  /\ last' = NoLast
  /\ fs' = write_atomic(fs, "sessions",
                        render_summary(before, after, history_order, blocks))
  /\ nwrites' = [nwrites EXCEPT !.sessions = @ + 1]
  /\ UNCHANGED <<history, args, before, after, existing_entries, updates, kept,
                 blocks, idx, completed, runs, edits, called, done, failed,
                 start, prev>>

\* a handler that leaves the loop and goes on to the journal
KeyboardInterrupt_then_journal ==
  /\ pc \in {"loop", "call"}
  /\ UNCHANGED <<writerVars, unitVars>>
  /\ pc' = "jcall"
  /\ report' = "Generating condensed journal..."
  /\ last' = NoLast
  /\ UNCHANGED <<fs, history, args, before, after, existing_entries, updates, kept,
                 blocks, idx, completed, exit, runs, edits, called, done, failed,
                 nwrites, start, prev>>

\* SIGINT while the loop runs: `except KeyboardInterrupt: return 130`
KeyboardInterrupt ==
  /\ pc \in {"loop", "call"}
  /\ UNCHANGED <<writerVars, unitVars>>
  /\ Ends(130, "none")
  /\ last' = NoLast
  /\ UNCHANGED <<fs, history, args, before, after, existing_entries, updates, kept,
                 blocks, idx, completed, runs, edits, called, done, failed,
                 nwrites, start, prev>>

\* ------------------------------------------------------ main: the journal
\* the loop is over: from sessions_body to the call of run_codex_journal
JournalDecide ==
  /\ pc = "loop" /\ idx > Len(history_files)
  /\ UNCHANGED <<writerVars, unitVars>>
  /\ LET sessions_sha == sha256_text(sessions_body_of(history_order, blocks))
         journal_sha == extract_journal_sessions_sha(read_text(fs, "journal"))
     IN IF args.no_journal THEN Ends(0, "Skipped journal generation (--no-journal).")
        ELSE IF journal_sha.r = "raise" THEN Ends(1, "none")
        ELSE IF needs_journal(args.force_journal, sessions_sha, journal_sha)
        THEN pc' = "jcall" /\ report' = "Generating condensed journal..." /\ exit' = exit
        ELSE Ends(0, "Journal up-to-date.")
  /\ last' = NoLast
  /\ UNCHANGED <<fs, history, args, before, after, existing_entries, updates, kept,
                 blocks, idx, completed, runs, edits, called, done, failed,
                 nwrites, start, prev>>

JournalOutcomes == Failures \cup {"nostring"} \cup JournalAnswers

\* a journal step that empties the journal file before it knows the answer
JournalReturn_truncating(outcome) ==
  /\ pc = "jcall"
  /\ UNCHANGED <<writerVars, unitVars>>
  /\ LET sessions_sha == sha256_text(sessions_body_of(history_order, blocks))
         existing_journal_text == read_text(fs, "journal")
         new_journal_text ==
           render_journal_file(sanitize_text(journal_markdown(outcome)), sessions_sha,
                               existing_journal_text)
     IN IF outcome \in JournalAnswers /\ new_journal_text.r = "ok"
        THEN /\ fs' = write_atomic(fs, "journal", new_journal_text.text)
             /\ nwrites' = [nwrites EXCEPT !.journal = @ + 1]
             /\ Ends(0, "Updated journal.")
        ELSE /\ Ends(1, report)
             /\ fs' = [fs EXCEPT !.journal = <<>>]
             /\ UNCHANGED nwrites
  /\ UNCHANGED <<history, args, before, after, existing_entries, updates, kept,
                 blocks, idx, completed, runs, edits, called, done, failed, last,
                 start, prev>>

\* run_codex_journal returned or raised
JournalReturn(outcome) ==
  /\ pc = "jcall"
  /\ UNCHANGED <<writerVars, unitVars>>
  /\ LET sessions_sha == sha256_text(sessions_body_of(history_order, blocks))
         existing_journal_text == read_text(fs, "journal")
         new_journal_text ==
           render_journal_file(sanitize_text(journal_markdown(outcome)), sessions_sha,
                               existing_journal_text)
     IN IF outcome \in JournalAnswers /\ new_journal_text.r = "ok"
        THEN /\ fs' = write_atomic(fs, "journal", new_journal_text.text)
             /\ nwrites' = [nwrites EXCEPT !.journal = @ + 1]
             /\ Ends(0, "Updated journal.")
        ELSE /\ Ends(1, report)
             /\ UNCHANGED <<fs, nwrites>>
  /\ UNCHANGED <<history, args, before, after, existing_entries, updates, kept,
                 blocks, idx, completed, runs, edits, called, done, failed, last,
                 start, prev>>

\* ------------------------------------------------------------- environment
\* between two runs a transcript gets other content
Edit(rel, content) ==
  /\ pc = "idle" /\ 0 < runs /\ runs < MaxRuns /\ edits < MaxEdits
  /\ UNCHANGED <<writerVars, unitVars>>
  /\ content # history[rel]
  /\ history' = [history EXCEPT ![rel] = content]
  /\ edits' = edits + 1
  /\ UNCHANGED <<fs, progVars, runs, called, done, failed, last, nwrites, start, prev>>

Next ==
  \/ \E a \in ArgSets : Start(a)
  \/ LoopSkip
  \/ LoopInvoke
  \/ \E o \in SummaryOutcomes : SummaryReturn(o)
  \/ KeyboardInterrupt
  \/ JournalDecide
  \/ \E o \in JournalOutcomes : JournalReturn(o)
  \/ \E rel \in Items, c \in Contents : Edit(rel, c)

Spec == Init /\ [][Next]_vars

\* ----------------------------------------------------- a repository in use
\* a transcript that earlier runs summarized and that was deleted since
Gone == NItems + 1

\* the blocks earlier runs rendered for these transcripts
UsedBlocks(paths) ==
  [rel \in paths |->
     render_entry([rel_path |-> rel, content |-> 1], sha256_file(1), 1, "ok")]

\* the ledger earlier runs wrote for these transcripts, around the prose of
\* its owner
UsedLedger(paths) ==
  write_atomic([sessions |-> ENOENT], "sessions",
               render_summary(<<Prose(3), NL>>, <<NL, Prose(4), NL>>,
                              [i \in 1..Cardinality(paths) |-> i],
                              UsedBlocks(paths))).sessions

\* that ledger after its owner typed a note into the managed region, above
\* the blocks
NotedLedger ==
  LET ledger == UsedLedger(Items)
      p == IndexOf(ledger, MANAGED_BEGIN)
  IN SubSeq(ledger, 1, p + 1) \o <<Prose(7), NL, NL>>
     \o SubSeq(ledger, p + 2, Len(ledger))

\* with and without the block of the deleted transcript, and with the note
LedgersInUse == {UsedLedger(Items), UsedLedger(Items \cup {Gone}), NotedLedger}

\* the digest an earlier run recorded for the blocks of the transcripts
UsedSha == sha256_text(sessions_body_of(history_order, UsedBlocks(Items)))

\* the journal an earlier run wrote after its owner had typed a note
\* between the Manual Notes markers of the template
KeptJournal ==
  write_atomic([journal |-> ENOENT], "journal",
               render_journal_file(<<Prose(5)>>, UsedSha,
                                   build_default_journal_file(<<Prose(2)>>)).text).journal

\* a journal its owner edited: a title of their own, a note set off by a
\* blank line, a closing remark
EditedJournal ==
  <<Prose(1), NL, JOURNAL_BEGIN, NL, JOURNAL_META_OPEN>> \o UsedSha
  \o <<JOURNAL_META_CLOSE, NL, Prose(5), NL, JOURNAL_END, NL, Prose(9), NL,
       MANUAL_BEGIN, NL, NL, Prose(2), NL, MANUAL_END, NL, Prose(4), NL>>

JournalsInUse == {ENOENT, KeptJournal, EditedJournal}

InitInUse ==
  /\ fs \in [sessions : LedgersInUse, journal : JournalsInUse]
  /\ history \in [Items -> {1}]
  /\ pc = "idle"
  /\ args = NoArgs
  /\ before = <<>> /\ after = <<>>
  /\ existing_entries = EmptyMap
  /\ updates = <<>> /\ kept = 0
  /\ blocks = EmptyMap
  /\ idx = 0 /\ completed = 0
  /\ exit = -1
  /\ report = "none"
  /\ runs = 0 /\ edits = 0
  /\ called = {} /\ done = {} /\ failed = {}
  /\ last = NoLast
  /\ nwrites = [sessions |-> 0, journal |-> 0]
  /\ start = [sessions |-> fs.sessions, journal |-> fs.journal, history |-> history]
  /\ prev = NoPrev
  /\ WriterIdle
  /\ UnitIdle

SpecInUse == InitInUse /\ [][Next]_vars

\* ------------------------------------------- write_atomic, step by step
MaxLen == 3    \* length of the content handed to write_atomic
\* the texts of at most n characters, line terminators among them
Texts(n) == UNION {[1..k -> {Prose(1), NL}] : k \in 0..n}

\* write_atomic was just called, on a target that exists or not
InitWrite ==
  /\ fs \in [sessions : {ENOENT, <<Prose(3), NL>>}, journal : {ENOENT, <<Prose(4), NL>>}]
  /\ wargs \in [path : {"sessions", "journal"}, content : Texts(MaxLen)]
  /\ wpc = "called"
  /\ tmp = ENOENT
  /\ target_was = fs[wargs.path]
  /\ UnitIdle
  /\ history \in [Items -> {1}]
  /\ pc = "idle"
  /\ args = NoArgs
  /\ before = <<>> /\ after = <<>>
  /\ existing_entries = EmptyMap
  /\ updates = <<>> /\ kept = 0
  /\ blocks = EmptyMap
  /\ idx = 0 /\ completed = 0
  /\ exit = -1
  /\ report = "none"
  /\ runs = 0 /\ edits = 0
  /\ called = {} /\ done = {} /\ failed = {}
  /\ last = NoLast
  /\ nwrites = [sessions |-> 0, journal |-> 0]
  /\ start = [sessions |-> fs.sessions, journal |-> fs.journal, history |-> history]
  /\ prev = NoPrev

\* tempfile.NamedTemporaryFile(mode="w", delete=False, dir=path.parent)
CreateTemp ==
  /\ wpc = "called"
  /\ tmp' = <<>>
  /\ wpc' = "opened"
  /\ UNCHANGED <<fs, history, progVars, ghostVars, unitVars, wargs, target_was>>

\* a write that goes to the target itself
WriteContent_in_place ==
  /\ wpc = "opened"
  /\ fs' = [fs EXCEPT ![wargs.path] = wargs.content]
  /\ wpc' = "written"
  /\ UNCHANGED <<history, progVars, ghostVars, unitVars, wargs, tmp, target_was>>

\* tmp.write(content)
WriteContent ==
  /\ wpc = "opened"
  /\ tmp' = tmp \o wargs.content
  /\ wpc' = "written"
  /\ UNCHANGED <<fs, history, progVars, ghostVars, unitVars, wargs, target_was>>

\* a terminator after every content
WriteNewline_always ==
  /\ wpc = "written"
  /\ tmp' = tmp \o <<NL>>
  /\ wpc' = "terminated"
  /\ UNCHANGED <<fs, history, progVars, ghostVars, unitVars, wargs, target_was>>

\* tmp.write("" if content.endswith("\n") else "\n")
WriteNewline ==
  /\ wpc = "written"
  /\ tmp' = tmp \o (IF endswith_newline(wargs.content) THEN <<>> ELSE <<NL>>)
  /\ wpc' = "terminated"
  /\ UNCHANGED <<fs, history, progVars, ghostVars, unitVars, wargs, target_was>>

\* the end of the with block: the temporary file is flushed and closed
CloseTemp ==
  /\ wpc = "terminated"
  /\ wpc' = "closed"
  /\ UNCHANGED <<fs, history, progVars, ghostVars, unitVars, wargs, tmp, target_was>>

\* tmp_path.replace(path): one rename
Replace ==
  /\ wpc = "closed"
  /\ fs' = [fs EXCEPT ![wargs.path] = tmp]
  /\ tmp' = ENOENT
  /\ wpc' = "replaced"
  /\ UNCHANGED <<history, progVars, ghostVars, unitVars, wargs, target_was>>

\* the process dies before the rename; of what it wrote to the temporary
\* file, any prefix may have reached the disk
Crash ==
  /\ wpc \in {"called", "opened", "written", "terminated", "closed"}
  /\ wpc' = "crashed"
  /\ IF tmp = ENOENT THEN tmp' = ENOENT
     ELSE \E k \in 0..Len(tmp) : tmp' = SubSeq(tmp, 1, k)
  /\ UNCHANGED <<fs, history, progVars, ghostVars, unitVars, wargs, target_was>>

NextWrite ==
  \/ CreateTemp
  \/ WriteContent
  \/ WriteNewline
  \/ CloseTemp
  \/ Replace
  \/ Crash

SpecWrite == InitWrite /\ [][NextWrite]_vars

\* -------------------------------------------------- functions on their own
MaxDoc == 4    \* length of the documents handed to extract_between
\* documents with and without the markers of the ledger, in any order
Documents ==
  UNION {[1..k -> {Prose(1), NL, MANAGED_BEGIN, MANAGED_END}] : k \in 0..MaxDoc}

MaxLines == 4  \* number of lines of a managed body
\* the lines a managed body is made of: blank, headers, metadata comments
\* with and without status, file and sha256, bullets with and without the
\* fallback highlight, the sentinel and other text
EntryLines ==
  { <<>>, <<Prose(3)>>, <<ENTRY_END>>, <<Header(1, 1)>>,
    <<Meta(1, 6, 1)>>, <<Meta(1, 6, 0)>>, <<Meta(1, 6, 2)>>, <<Meta(2, 6, 1)>>,
    <<Meta(1, 0, 1)>>, <<Meta(0, 6, 1)>>,
    <<Bullets(1, 1, FALLBACK_HIGHLIGHT)>> }
\* two complete blocks, of the transcripts a and b, with a blank line between
TwoBlocks(a, b) ==
  << Header(1, 1), NL, Meta(a, 6, 1), NL, ENTRY_END, NL, NL,
     Header(1, 1), NL, Meta(b, 6, 1), NL, ENTRY_END >>
Bodies ==
  {join(<<NL>>, lines) : lines \in UNION {[1..k -> EntryLines] : k \in 0..MaxLines}}
    \cup {TwoBlocks(1, 2), TwoBlocks(2, 1)}
\* the text around a managed body: nothing at all, newlines only, and a
\* title before and a remark after the region
Frames ==
  { [pre |-> <<>>, lead |-> <<>>, trail |-> <<>>, suf |-> <<>>],
    [pre |-> <<>>, lead |-> <<NL>>, trail |-> <<NL>>, suf |-> <<NL>>],
    [pre |-> <<Prose(1), NL>>, lead |-> <<NL>>, trail |-> <<NL>>,
     suf |-> <<NL, Prose(2), NL>>] }
\* ledger files: a managed region around a body
Ledgers ==
  {f.pre \o <<MANAGED_BEGIN>> \o f.lead \o body \o f.trail \o <<MANAGED_END>> \o f.suf :
     f \in Frames, body \in Bodies}

\* what the collaborator can answer for one transcript, the fallback of a
\* failed call included
Datas == {1, 2, FALLBACK_HIGHLIGHT, QuotesMarker}
\* the summaries of the transcripts that have one
Summaries == UNION {[paths -> Datas] : paths \in SUBSET Items}
Prefixes == {<<>>, <<Prose(1), NL>>}
Suffixes == {<<>>, <<NL>>, <<NL, Prose(2), NL>>}

MaxText == 4   \* length of the texts handed to sanitize_text
\* texts with credentials, key-value pairs, emails and home directories
SensitiveTexts ==
  UNION {[1..k -> {Prose(1), NL, SECRET, KEY, COLON, EQ, COMMA, EMAIL, HomeOf(1)}] :
           k \in 0..MaxText}

\* a piece of text of a transcript or of an answer: harmless, a credential,
\* an email address
Words == {<<Prose(1)>>, <<SECRET>>, <<EMAIL>>}
\* the text fields of a HistorySession (front matter, title, transcript)
Sessions == [provider : Words, title : Words, content : Words]
\* the text fields of an answer: project_relevance.label and a highlight
SummaryTexts == [label : Words, item : Words]

\* what the collaborator can do for one transcript: fail, answer with a
\* complete summary, or answer with a JSON object that lacks the required
\* field "highlights"
Responses == Failures \cup Answers \cup {"partial"}

\* the inputs of the functions observed on their own
Inputs ==
  [fn : {"extract_between"}, text : Documents]
    \cup [fn : {"reload"}, text : Ledgers]
    \cup [fn : {"sanitize_text"}, text : SensitiveTexts]
    \cup [fn : {"make_prompt"}, text : {<<HomeOf(1)>>}, session : Sessions]
    \cup [fn : {"render_entry"}, text : {<<>>}, session : Sessions,
          summary : SummaryTexts]
    \cup [fn : {"iteration"}, text : {<<>>}, rel_path : {1, SpacedPath},
          content : Contents, response : Responses]
    \cup [fn : {"parse_existing_entries"}, text : Bodies]
    \cup [fn : {"render_entry, parse_existing_entries"}, text : Prefixes,
          rel_path : {1, 2, SpacedPath}, content : Contents,
          data : {1, 2, FALLBACK_HIGHLIGHT}, status : {"ok", "error"}]
    \cup [fn : {"render_summary"}, text : Prefixes, after : Suffixes,
          summaries : Summaries]

\* a function is about to be applied to an input, main is not running
InitPure ==
  /\ input \in Inputs
  /\ output = <<>>
  /\ fs = [sessions |-> ENOENT, journal |-> ENOENT]
  /\ WriterIdle
  /\ history \in [Items -> {1}]
  /\ pc = "idle"
  /\ args = NoArgs
  /\ before = <<>> /\ after = <<>>
  /\ existing_entries = EmptyMap
  /\ updates = <<>> /\ kept = 0
  /\ blocks = EmptyMap
  /\ idx = 0 /\ completed = 0
  /\ exit = -1
  /\ report = "none"
  /\ runs = 0 /\ edits = 0
  /\ called = {} /\ done = {} /\ failed = {}
  /\ last = NoLast
  /\ nwrites = [sessions |-> 0, journal |-> 0]
  /\ start = [sessions |-> fs.sessions, journal |-> fs.journal, history |-> history]
  /\ prev = NoPrev

\* the function returns (or raises) and nothing else changes
Returns(value) ==
  /\ output = <<>>
  /\ output' = <<value>>
  /\ UNCHANGED <<fs, history, progVars, ghostVars, writerVars, input>>

\* extract_between(text, MANAGED_BEGIN, MANAGED_END)
Extract ==
  /\ input.fn = "extract_between"
  /\ Returns(extract_between(input.text, MANAGED_BEGIN, MANAGED_END))

\* every path a block of the ledger can name, in history order
AllPaths == <<1, 2>>
\* blocks[entry.rel_path] = entry.block for every entry kept
blocks_of(entries) == [rel \in DOMAIN entries |-> entries[rel].block]

\* what main writes back for a ledger it read when every entry is kept:
\* extract_between, parse_existing_entries, render_summary
reload(text) ==
  LET ex == extract_between(text, MANAGED_BEGIN, MANAGED_END) IN
  IF ex.r # "ok" THEN [r |-> ex.r, text |-> <<>>]
  ELSE [r |-> "ok",
        text |-> render_summary(ex.before, ex.after, AllPaths,
                                blocks_of(parse_existing_entries(ex.middle)))]

Reload ==
  /\ input.fn = "reload"
  /\ Returns(reload(input.text))

\* blocks[session.rel_path] = render_entry(...) for every summary
rendered_blocks(summaries) ==
  [rel \in DOMAIN summaries |->
     render_entry([rel_path |-> rel, content |-> 1], sha256_file(1), summaries[rel],
                  IF summaries[rel] = FALLBACK_HIGHLIGHT THEN "error" ELSE "ok")]

\* render_summary of freshly rendered blocks, read back by extract_between
\* as the next run does
Render ==
  /\ input.fn = "render_summary"
  /\ Returns(extract_between(
               render_summary(input.text, input.after, history_order,
                              rendered_blocks(input.summaries)),
               MANAGED_BEGIN, MANAGED_END))

\* sanitize_text applied once and once more to its own result
Sanitize ==
  /\ input.fn = "sanitize_text"
  /\ Returns([once |-> sanitize_text(input.text),
              twice |-> sanitize_text(sanitize_text(input.text))])

\* the fixed instructions of a request
Instructions == <<Prose(4), NL>>
\* the request for one transcript: instructions, the sanitized repo_root,
\* the session metadata and the transcript as they are
make_prompt(repo_root, session) ==
  Instructions \o sanitize_text(repo_root) \o <<NL>>
  \o session.provider \o <<NL>>
  \o session.title \o <<NL>>
  \o session.content \o <<NL>>

MakePrompt ==
  /\ input.fn = "make_prompt"
  /\ Returns(make_prompt(input.text, input.session))

\* the words of a block: header (provider as it is, sanitized title), the
\* relevance label as it is in the metadata comment and in its bullet, the
\* sanitized highlight, the sentinel
render_entry_words(session, summary) ==
  session.provider \o sanitize_text(session.title) \o <<NL>>
  \o summary.label \o <<NL>>
  \o summary.label \o <<NL>>
  \o sanitize_text(summary.item) \o <<NL, ENTRY_END>>

RenderEntry ==
  /\ input.fn = "render_entry"
  /\ Returns(render_entry_words(input.session, input.summary))

\* the number that stands for a summary without highlights in a token
MissingField == 4
\* status and data after the try statement around run_codex_summary:
\* json_load_loose returns every JSON object as it is
summary_or_fallback(response) ==
  IF response \in Failures
  THEN [status |-> "error", data |-> FALLBACK_HIGHLIGHT]
  ELSE [status |-> "ok",
        data |-> IF response = "partial" THEN MissingField ELSE DataOf(response)]

\* one iteration of the processing loop for the transcript at rel, and what
\* the next run, without --force and with the transcript unchanged, makes of
\* the block it wrote
iteration(rel, content, response) ==
  LET session == [rel_path |-> rel, content |-> content]
      sha == sha256_file(content)
      got == summary_or_fallback(response)
      block == render_entry(session, sha, got.data, got.status)
      entries == parse_existing_entries(block)
  IN [status |-> got.status, block |-> block,
      entries |-> entries,
      skipped |-> loop_skips(entries, rel, sha, FALSE)]

Iteration ==
  /\ input.fn = "iteration"
  /\ Returns(iteration(input.rel_path, input.content, input.response))

\* parse_existing_entries(managed_body)
Parse ==
  /\ input.fn = "parse_existing_entries"
  /\ Returns(parse_existing_entries(input.text))

\* a block as render_entry writes it, read back by parse_existing_entries
\* from a managed body that holds it after other text
entry_round_trip(text, session, sha, data, status) ==
  LET block == render_entry(session, sha, data, status)
  IN [block |-> block,
      entries |-> parse_existing_entries(<<NL>> \o text \o block \o <<NL>>)]

RoundTrip ==
  /\ input.fn = "render_entry, parse_existing_entries"
  /\ Returns(entry_round_trip(input.text,
               [rel_path |-> input.rel_path, content |-> input.content],
               sha256_file(input.content), input.data, input.status))

NextPure ==
  \/ RoundTrip
  \/ Parse
  \/ Iteration
  \/ MakePrompt
  \/ RenderEntry
  \/ Extract
  \/ Reload
  \/ Render
  \/ Sanitize

SpecPure == InitPure /\ [][NextPure]_vars


\* ================================================================== claims
\* the partition pass ran: every transcript is either kept or to update
Partitioned == Len(updates) + kept = Len(history_files) /\ runs > 0
\* the per-item loop is past the transcript
Passed(rel) == rel < idx \/ (rel = idx /\ pc = "call")
InUpdates(rel) == \E k \in 1..Len(updates) : updates[k] = rel
\* a non-dry run that got as far as the per-item loop
InLoopOrAfter == Partitioned /\ ~args.dry_run
\* the ledger on disk, split at its markers, and the entries in it
DiskRegion == extract_between(read_text(fs, "sessions"), MANAGED_BEGIN, MANAGED_END)
DiskEntries == parse_existing_entries(DiskRegion.middle)
StartRegion ==
  extract_between(read_text(start, "sessions"), MANAGED_BEGIN, MANAGED_END)
StartEntries == parse_existing_entries(StartRegion.middle)

\* C1: a transcript is skipped, in the partition pass and in the loop, with
\* its block reused verbatim and no collaborator call, exactly when the
\* ledger read at the start of the run holds an entry for its path whose
\* fingerprint is the SHA-256 of the transcript, whose status is ok, and
\* --force was not given; every other transcript is listed for update and
\* gets a collaborator call.
C1_Reusable(entries, rel) ==
  /\ rel \in DOMAIN entries
  /\ entries[rel].sha256 = sha256_file(start.history[rel])
  /\ entries[rel].status = "ok"
  /\ ~args.force

C1_SkipIffReusable ==
  Partitioned =>
    LET was == StartEntries
        now == DiskEntries
    IN /\ \A rel \in Items : InUpdates(rel) <=> ~C1_Reusable(was, rel)
       /\ kept = Cardinality({rel \in Items : C1_Reusable(was, rel)})
       /\ ~args.dry_run =>
            /\ \A rel \in called : rel <= idx
            /\ \A rel \in Items : Passed(rel) =>
                 /\ rel \in called <=> ~C1_Reusable(was, rel)
                 /\ C1_Reusable(was, rel) =>
                      /\ blocks[rel] = was[rel].block
                      /\ (done # {} => now[rel].block = was[rel].block)

C1_Witness ==
  /\ pc = "idle" /\ exit = 0 /\ ~args.dry_run
  /\ \E r1, r2 \in Items :
       /\ C1_Reusable(StartEntries, r1) /\ r1 \notin called
       /\ r2 \in done /\ DiskEntries[r1].block = StartEntries[r1].block


C3_WriteAfterEachItem ==
  InLoopOrAfter =>
    LET now == DiskEntries
        was == StartEntries
    IN /\ nwrites.sessions = Cardinality(done)
       /\ pc = "call" => done = called \ {history_files[idx]}
       /\ pc = "loop" => done = called
       /\ done # {} =>
            /\ DiskRegion.r = "ok"
            /\ \A rel \in Items :
                 IF rel \in done
                 THEN rel \in DOMAIN now /\ now[rel].block = blocks[rel]
                 ELSE IF rel \in DOMAIN was
                 THEN rel \in DOMAIN now /\ now[rel].block = was[rel].block
                 ELSE rel \notin DOMAIN now

C3_Witness ==
  /\ pc = "call" /\ done # {} /\ failed # {}
  /\ \A rel \in done : DiskEntries[rel].block = blocks[rel]

AfterInterruptedRun ==
  /\ InLoopOrAfter /\ prev.exit = 130
  /\ start.history = prev.history
  /\ ~args.force

AfterCompletedRun ==
  /\ InLoopOrAfter /\ prev.exit = 0 /\ ~prev.dry_run
  /\ ~args.force

ChangedSincePrev == {rel \in Items : start.history[rel] # prev.history[rel]}

StartLacksMarker ==
  /\ runs > 0 /\ start.sessions # ENOENT
  /\ \/ ~Contains(start.sessions, MANAGED_BEGIN)
     \/ ~Contains(start.sessions, MANAGED_END)

\* the run ended before the loop, called nobody and wrote nothing
FailedFast ==
  /\ pc = "idle" /\ exit \in {1, 2}
  /\ called = {}
  /\ nwrites.sessions = 0 /\ nwrites.journal = 0
  /\ fs.sessions = start.sessions /\ fs.journal = start.journal

\* C9 as stated: when the ledger file exists and does not contain both
\* markers, the run fails fast with a non-zero exit, before any collaborator
\* call and without writing the ledger or the journal; only an absent
\* ledger file is replaced by the synthesized document.
C9_Original == StartLacksMarker => FailedFast

\* C9 (amended): when the ledger file exists, is not empty and does not
\* contain both markers, the run fails fast with a non-zero exit, before any
\* collaborator call and without writing the ledger or the journal; an
\* absent or empty ledger file is replaced by the synthesized document with
\* an empty managed region.
C9_FailFastWithoutMarkers ==
  /\ (StartLacksMarker /\ start.sessions # <<>>) => FailedFast
  /\ (runs > 0 /\ read_text(start, "sessions") = <<>>) =>
       /\ Partitioned
       /\ before \o <<MANAGED_BEGIN, NL, MANAGED_END>> \o after = build_default_sessions_file
       /\ existing_entries = EmptyMap

C9_Witness ==
  /\ StartLacksMarker /\ start.sessions # <<>>
  /\ Contains(start.sessions, MANAGED_BEGIN)
  /\ FailedFast /\ exit = 2

\* C10: a dry run loads, parses and partitions only: it calls the
\* collaborator for no transcript and writes neither the ledger nor the
\* journal, whatever the ledger and the transcripts are.
C10_DryRunTouchesNothing ==
  (runs > 0 /\ args.dry_run) =>
    /\ pc = "idle"
    /\ called = {} /\ done = {}
    /\ nwrites.sessions = 0 /\ nwrites.journal = 0
    /\ fs.sessions = start.sessions /\ fs.journal = start.journal
    /\ StartRegion.r # "ok" \/ read_text(start, "sessions") = <<>> \/ exit = 0

C10_Witness ==
  /\ runs > 0 /\ args.dry_run /\ exit = 0
  /\ Partitioned /\ kept > 0 /\ updates # <<>>
  /\ fs.journal # ENOENT

\* the run decided about the journal (it is no dry run and got past the loop)
JournalDecided ==
  /\ runs > 0 /\ ~args.dry_run
  /\ report \in {"Skipped journal generation (--no-journal).",
                 "Generating condensed journal...", "Journal up-to-date.",
                 "Updated journal."}
\* the run called the condensation collaborator
JournalAttempted == report \in {"Generating condensed journal...", "Updated journal."}
\* the text fingerprint of the managed body of the ledger file
DiskBodySha == sha256_text(strip(DiskRegion.middle))
\* the fingerprint the journal recorded when the run started
StartJournalSha == extract_journal_sessions_sha(read_text(start, "journal"))

\* C11: when the journal is enabled and not forced, the condensation
\* collaborator is called, and on its answer the journal file written,
\* exactly when the fingerprint of the managed body of the ledger file
\* differs from the one recorded in the journal (none recorded counts as
\* differing); otherwise the journal file is not written.
C11_RegeneratedIffBodyDiffers ==
  (JournalDecided /\ ~args.no_journal /\ ~args.force_journal) =>
    /\ JournalAttempted <=> DiskBodySha # StartJournalSha.sha
    /\ report = "Updated journal." => nwrites.journal = 1 /\ fs.journal # start.journal
    /\ ~JournalAttempted => nwrites.journal = 0 /\ fs.journal = start.journal

\* the fingerprint the run computed for the blocks it holds
RunSessionsSha == sha256_text(sessions_body_of(history_order, blocks))

\* C12 as stated: the journal is regenerated exactly when the recorded
\* fingerprint differs from the freshly computed one, or --force-journal is
\* set, or --no-journal was not requested.
C12_Original ==
  JournalDecided =>
    (JournalAttempted <=>
       \/ RunSessionsSha # StartJournalSha.sha
       \/ args.force_journal
       \/ ~args.no_journal)

\* C12 (amended): the journal is regenerated exactly when --no-journal was
\* not requested and either the recorded fingerprint differs from the
\* freshly computed one or --force-journal is set.
C12_RegenerationGate ==
  JournalDecided =>
    /\ JournalAttempted <=>
         /\ ~args.no_journal
         /\ RunSessionsSha # StartJournalSha.sha \/ args.force_journal
    /\ ~JournalAttempted => nwrites.journal = 0 /\ fs.journal = start.journal

C12_Witness ==
  /\ JournalDecided /\ report = "Updated journal."
  /\ args.force_journal /\ RunSessionsSha = StartJournalSha.sha
  /\ nwrites.journal = 1

\* the Manual Notes region of the journal the run found, and of the one on
\* disk
StartManual == extract_between(read_text(start, "journal"), MANUAL_BEGIN, MANUAL_END)
DiskManual == extract_between(read_text(fs, "journal"), MANUAL_BEGIN, MANUAL_END)

\* C13: every journal regeneration, a forced one with an unchanged
\* fingerprint included, copies the text between the Manual Notes markers
\* of the previous journal file into the new journal file byte for byte.
C13_ManualNotesVerbatim ==
  (JournalDecided /\ report = "Updated journal." /\ StartManual.r = "ok") =>
    /\ DiskManual.r = "ok"
    /\ DiskManual.middle = StartManual.middle

\* the text of a journal outside its managed region and outside the text
\* between its Manual Notes markers
JournalOutside(text) ==
  LET region == extract_between(text, JOURNAL_BEGIN, JOURNAL_END)
      manual == extract_between(region.after, MANUAL_BEGIN, MANUAL_END)
  IN [r |-> IF region.r = "ok" /\ manual.r = "ok" THEN "ok" ELSE "none",
      prefix |-> region.before,
      between |-> manual.before,
      suffix |-> manual.after]

\* C14: a journal regeneration leaves the text of the existing journal file
\* that lies outside its managed region, the prefix and the suffix its
\* owner wrote, unchanged in the rewritten file.
C14_JournalProseKept ==
  (JournalDecided /\ report = "Updated journal."
     /\ JournalOutside(read_text(start, "journal")).r = "ok") =>
    JournalOutside(read_text(fs, "journal")) = JournalOutside(read_text(start, "journal"))

\* the run wrote a ledger file that had its markers when the run started
LedgerRewritten == InLoopOrAfter /\ nwrites.sessions > 0 /\ StartRegion.r = "ok"

\* C15 as stated: every ledger write of a run keeps the text before the
\* begin marker and the text after the end marker exactly as the run read
\* them at its start.
C15_Original ==
  LedgerRewritten =>
    /\ DiskRegion.before = StartRegion.before
    /\ DiskRegion.after = StartRegion.after

\* C15 (amended): every ledger write of a run keeps the text before the
\* begin marker exactly as read at the start of the run, and the text after
\* the end marker exactly as read except that a line terminator is appended
\* when that text did not end with one; nothing else outside the managed
\* region changes.
C15_LedgerProseKept ==
  LedgerRewritten =>
    /\ DiskRegion.r = "ok"
    /\ DiskRegion.before = StartRegion.before
    /\ DiskRegion.after =
         StartRegion.after \o (IF endswith_newline(StartRegion.after) THEN <<>> ELSE <<NL>>)
    /\ before = StartRegion.before /\ after = StartRegion.after

C15_Witness ==
  /\ LedgerRewritten /\ pc = "idle" /\ exit = 0
  /\ StartRegion.before # <<>>
  /\ ~endswith_newline(StartRegion.after)
  /\ DiskRegion.middle # StartRegion.middle

\* C16: after a completed run that regenerated the journal, the fingerprint
\* in the metadata comment of the journal file is the text fingerprint of
\* the managed body of the ledger file on disk.
C16_JournalRecordsLedgerBody ==
  (JournalDecided /\ report = "Updated journal.") =>
    LET recorded == extract_journal_sessions_sha(read_text(fs, "journal"))
    IN recorded.r = "ok" /\ recorded.sha = DiskBodySha

\* the paths of the header lines of a managed body, in the order of the text
HeaderPaths(managed_body) ==
  LET heads == SelectSeq(managed_body, IsHeader)
  IN [i \in 1..Len(heads) |-> FieldA(heads[i])]

\* the managed body is nothing but its entry blocks, one per path, in
\* ascending path order, blank lines between them, each ending with the
\* sentinel line
OrderedBlocks(managed_body) ==
  LET entries == parse_existing_entries(managed_body)
      paths == HeaderPaths(managed_body)
  IN /\ \A i \in 1..Len(paths) : \A j \in 1..Len(paths) : i < j => paths[i] < paths[j]
     /\ DOMAIN entries = {paths[i] : i \in 1..Len(paths)}
     /\ \A rel \in DOMAIN entries :
          LET b == entries[rel].block IN b # <<>> /\ b[Len(b)] = ENTRY_END
     /\ strip(managed_body) =
          join(<<NL, NL>>, [i \in 1..Len(paths) |-> entries[paths[i]].block])

\* C17: after every ledger write the managed region is the concatenation
\* of entry blocks in ascending transcript order, with no path twice and
\* every block ending with the sentinel line; after a completed run it
\* holds exactly one block for each transcript found and no block for any
\* other path.
C17_RegionIsOrderedBlocks ==
  /\ (InLoopOrAfter /\ nwrites.sessions > 0) =>
       DiskRegion.r = "ok" /\ OrderedBlocks(DiskRegion.middle)
  /\ (InLoopOrAfter /\ pc = "idle" /\ exit = 0) =>
       /\ DiskRegion.r = "ok"
       /\ DOMAIN DiskEntries = Items
       /\ Len(HeaderPaths(DiskRegion.middle)) = NItems

\* the transcript content a block was rendered from
BlockContent(block) == FieldB(block[1])

\* C18: at every point of a run, each entry of the ledger either stores the
\* fingerprint of the transcript content its block was produced from, or
\* has status error; an entry with status error is recomputed by the next
\* run even when its fingerprint matches.
C18_FingerprintOrError ==
  LET now == DiskEntries
      was == StartEntries
  IN /\ \A rel \in DOMAIN now :
          \/ now[rel].sha256 = sha256_file(BlockContent(now[rel].block))
          \/ now[rel].status = "error"
     /\ (InLoopOrAfter /\ idx > Len(history_files)) =>
          \A rel \in Items \cap DOMAIN was :
            was[rel].status = "error" => rel \in called

C18_Witness ==
  /\ InLoopOrAfter /\ pc = "idle" /\ exit = 0
  /\ \E rel \in Items \cap DOMAIN StartEntries :
       /\ StartEntries[rel].status = "error"
       /\ StartEntries[rel].sha256 = sha256_file(start.history[rel])
       /\ rel \in called
       /\ DiskEntries[rel].status = "ok"
       /\ DiskEntries[rel].sha256 = sha256_file(BlockContent(DiskEntries[rel].block))

\* the file a finished write_atomic call is to leave at the target
NewFile == write_atomic(fs, wargs.path, wargs.content)[wargs.path]
OtherPath == IF wargs.path = "sessions" THEN "journal" ELSE "sessions"

\* C19: while write_atomic runs, the target holds either the complete
\* previous file or the complete new file, so that a reader of the target
\* never sees a partly written file; a crash at any step before the replace
\* leaves the previous file as it was.
C19_WriteIsAtomic ==
  wpc # "none" =>
    /\ fs[wargs.path] \in {target_was, NewFile}
    /\ wpc # "replaced" => fs[wargs.path] = target_was
    /\ wpc = "replaced" => fs[wargs.path] = NewFile
    /\ fs[OtherPath] = start[OtherPath]

C19_Witness ==
  /\ wpc = "crashed"
  /\ target_was # ENOENT /\ fs[wargs.path] = target_was
  /\ tmp # ENOENT /\ tmp # <<>> /\ tmp # NewFile

\* the text ends with one line terminator and no more
EndsWithOneNewline(text) ==
  /\ Len(text) >= 1 /\ text[Len(text)] = NL
  /\ Len(text) >= 2 => text[Len(text) - 1] # NL

\* C20 as stated: for every content, also one that ends in one or several
\* newlines, write_atomic leaves a target file that ends with exactly one
\* line terminator.
C20_Original ==
  wpc = "replaced" => EndsWithOneNewline(fs[wargs.path])

\* C20 (amended): write_atomic leaves a target file that ends with a line
\* terminator: it appends one exactly when the content does not already end
\* with one (the empty content included) and writes the content unchanged
\* otherwise, so that content ending in several newlines keeps them all.
C20_NewlineAppendedWhenMissing ==
  wpc = "replaced" =>
    LET content == wargs.content
        file == fs[wargs.path]
        terminated == Len(content) >= 1 /\ content[Len(content)] = NL
    IN /\ file = (IF terminated THEN content ELSE content \o <<NL>>)
       /\ file[Len(file)] = NL
       /\ file = NewFile
       /\ ~(Len(content) >= 2 /\ content[Len(content) - 1] = NL /\ terminated)
            => EndsWithOneNewline(file)

C20_Witness ==
  /\ wpc = "replaced"
  /\ Len(wargs.content) >= 2
  /\ wargs.content[Len(wargs.content)] = NL
  /\ wargs.content[Len(wargs.content) - 1] # NL
  /\ fs[wargs.path] = wargs.content

\* the position of the first tok after position i, 0 if there is none
FindAfter(text, tok, i) == find(text, tok, i + 1)

\* C21: extract returns none, it does not raise and returns no partial
\* result, whenever a marker is absent from the document or the begin
\* marker is not followed by an end marker (as when the only end marker
\* precedes the begin marker).
C21_ExtractReturnsNone ==
  (input.fn = "extract_between" /\ output # <<>>) =>
    LET text == input.text
        b == IndexOf(text, MANAGED_BEGIN)
    IN (b = 0 \/ FindAfter(text, MANAGED_END, b) = 0) => output[1].r = "none"

\* the managed region of a ledger text
RegionOf(text) == extract_between(text, MANAGED_BEGIN, MANAGED_END)
Reloaded == input.fn = "reload" /\ output # <<>> /\ output[1].r = "ok"
\* the body render_summary writes for the entries parse finds in body
CanonicalBody(body) ==
  LET new_managed_body ==
        strip(join(<<NL, NL>>,
                   body_blocks(AllPaths, blocks_of(parse_existing_entries(body)))))
  IN <<NL>> \o (IF new_managed_body # <<>> THEN new_managed_body \o <<NL>> ELSE <<>>)

\* the entries parse finds in body, their blocks without the blank lines at
\* their ends
EntriesOf(body) ==
  LET entries == parse_existing_entries(body)
  IN [rel \in DOMAIN entries |-> [entries[rel] EXCEPT !.block = strip(@)]]

\* every block of the entries ends with the sentinel
Closed(entries) ==
  \A rel \in DOMAIN entries :
    entries[rel].block[Len(entries[rel].block)] = ENTRY_END

\* C22 as stated: every document on which extract succeeds is rendered
\* back exactly from its extracted prefix, body and suffix.
C22_Original ==
  Reloaded => output[1].text = input.text

\* C22: rendering what was extracted keeps the prefix and the suffix
\* exactly and, when every block that parse finds in the body ends with the
\* sentinel, keeps every Entry (path, fingerprint, status and block up to
\* blank lines at its ends); the result is
\* the document itself exactly when its body is already in the form render
\* writes (the blocks of its entries in order, separated by blank lines,
\* between two newlines), and every other body is replaced by that form.
C22_ReloadKeepsFrameAndEntries ==
  Reloaded =>
    LET was == RegionOf(input.text)
        now == RegionOf(output[1].text)
    IN /\ now.r = "ok"
       /\ now.before = was.before
       /\ now.after = was.after
       /\ Closed(EntriesOf(was.middle)) =>
            EntriesOf(now.middle) = EntriesOf(was.middle)
       /\ now.middle = CanonicalBody(was.middle)
       /\ (output[1].text = input.text) <=> (was.middle = CanonicalBody(was.middle))

\* a ledger with text around the region and one complete entry is reloaded
\* unchanged
C22_Witness ==
  /\ Reloaded
  /\ output[1].text = input.text
  /\ RegionOf(input.text).before # <<>>
  /\ RegionOf(input.text).after # <<>>
  /\ parse_existing_entries(RegionOf(input.text).middle) # EmptyMap

\* the managed body render_summary makes of the summaries
RenderedBody(summaries) ==
  strip(join(<<NL, NL>>, body_blocks(history_order, rendered_blocks(summaries))))

\* C23: extract recovers the prefix, the body and the suffix of every
\* document render produced (the body up to the newlines render puts
\* between it and the markers).
C23_ExtractRecoversRendered ==
  (input.fn = "render_summary" /\ output # <<>>) =>
    /\ output[1].r = "ok"
    /\ output[1].before = input.text
    /\ strip(output[1].middle) = RenderedBody(input.summaries)
    /\ output[1].after = input.after

Sanitized == input.fn = "sanitize_text" /\ output # <<>>

\* C26 as stated: the transform is idempotent because no detector matches
\* a text it has produced.
C26_Original ==
  Sanitized =>
    /\ output[1].twice = output[1].once
    /\ detect_sensitive_categories(output[1].once) = {}

\* C26: the transform is idempotent, for every text t
\* sanitize(sanitize(t)) = sanitize(t); the placeholders of the pattern
\* rules and of the email rule are matched by no detector, while the
\* placeholder of the credential rule ("key=[REDACTED]") is matched again by
\* that rule, which rewrites it to itself, and is the only category still
\* detected in sanitized text.
C26_SanitizeIdempotent ==
  Sanitized =>
    /\ output[1].twice = output[1].once
    /\ detect_sensitive_categories(output[1].once) \subseteq {"credential_kv"}
    /\ ("credential_kv" \in detect_sensitive_categories(output[1].once))
         <=> ("credential_kv" \in
                detect_sensitive_categories(pattern_pass(path_pass(input.text))))

\* a text with a credential pair, an email and a key was sanitized
C26_Witness ==
  /\ Sanitized
  /\ detect_sensitive_categories(input.text) = {"pattern", "credential_kv", "email"}
  /\ output[1].once # input.text

\* C24: the transcript text and the metadata of a Source Item are in the
\* request to the collaborator only as the redaction filter returned them.
C24_RequestIsSanitized ==
  (input.fn = "make_prompt" /\ output # <<>>) =>
    output[1] = Instructions \o sanitize_text(input.text) \o <<NL>>
                \o sanitize_text(input.session.provider) \o <<NL>>
                \o sanitize_text(input.session.title) \o <<NL>>
                \o sanitize_text(input.session.content) \o <<NL>>

\* C25: every text of a Source Item or of a collaborator response is in
\* the Entry block written to the ledger only as the redaction filter
\* returned it.
C25_EntryIsSanitized ==
  (input.fn = "render_entry" /\ output # <<>>) =>
    output[1] = sanitize_text(input.session.provider)
                \o sanitize_text(input.session.title) \o <<NL>>
                \o sanitize_text(input.summary.label) \o <<NL>>
                \o sanitize_text(input.summary.label) \o <<NL>>
                \o sanitize_text(input.summary.item) \o <<NL, ENTRY_END>>

\* C27: a response that lacks a required field of the summary schema is
\* handled like a collaborator failure: status=error, the fallback body, and
\* a retry on the next run.
C27_MissingFieldIsFailure ==
  (input.fn = "iteration" /\ output # <<>> /\ input.response = "partial") =>
    /\ output[1] = iteration(input.rel_path, input.content, "badjson")
    /\ output[1].status = "error"
    /\ has_fallback(output[1].block)
    /\ ~output[1].skipped

\* the run was interrupted
Interrupted == pc = "idle" /\ exit = 130

\* C28: an interrupt in the per-item loop, between two iterations or while
\* the collaborator is called, ends the run with exit status 130 and writes
\* nothing: the step leaves both files as they are, and after it the run has
\* written the ledger once per completed transcript and the journal never,
\* the ledger being the text of the last write (the blocks computed so far)
\* or, without a write, the file the run found.
C28_InterruptEndsRun ==
  /\ [][(pc \in {"loop", "call"} /\ exit' = 130) =>
          (pc' = "idle" /\ fs' = fs /\ nwrites' = nwrites)]_vars
  /\ [](Interrupted =>
          /\ nwrites.journal = 0
          /\ fs.journal = start.journal
          /\ nwrites.sessions = Cardinality(done)
          /\ IF done = {}
             THEN fs.sessions = start.sessions
             ELSE fs.sessions =
                    write_atomic(fs, "sessions",
                      render_summary(before, after, history_order, blocks)).sessions)

\* a run interrupted while the collaborator worked on a transcript, after
\* it had written the ledger for another one
C28_Witness ==
  /\ Interrupted
  /\ nwrites.sessions > 0
  /\ called # done
  /\ fs.sessions # start.sessions

Parsed == input.fn = "parse_existing_entries" /\ output # <<>>
\* the metadata comment of a block: its second line
MetaOf(block) == strip(splitlines(block)[2])[1]
\* the block holds the fixed placeholder of a failed generation
HoldsPlaceholder(block) ==
  \E i \in 1..Len(block) :
    IsBullets(block[i]) /\ block[i] % 10 = FALLBACK_HIGHLIGHT

\* C29: an Entry parsed from a block whose metadata comment has no status
\* field has status error if the block holds the generation-failed
\* placeholder and ok otherwise; an Entry parsed from a block with a status
\* field has that status whatever the block holds.
C29_StatusDefault ==
  Parsed =>
    \A rel \in DOMAIN output[1] :
      LET entry == output[1][rel]
          code == MetaOf(entry.block) % 10
      IN CASE code = 1 -> entry.status = "ok"
           [] code = 2 -> entry.status = "error"
           [] OTHER -> entry.status =
                         IF HoldsPlaceholder(entry.block) THEN "error" ELSE "ok"

\* an older block with the placeholder was parsed as a failed Entry
C29_Witness ==
  /\ Parsed
  /\ 1 \in DOMAIN output[1]
  /\ MetaOf(output[1][1].block) % 10 = 0
  /\ HoldsPlaceholder(output[1][1].block)
  /\ output[1][1].status = "error"

\* line i is a header line and line i + 1 a metadata comment that carries
\* the path and the fingerprint
StartsBlock(lines, i) ==
  /\ i + 1 <= Len(lines)
  /\ lines[i] # <<>> /\ KindOf(lines[i][1]) = 10
  /\ LET m == strip(lines[i + 1])
     IN Len(m) = 1 /\ KindOf(m[1]) = 11
        /\ (m[1] \div 100) % 10 # 0 /\ (m[1] \div 10) % 10 # 0
\* the first sentinel line at or after line i, the last line if there is none
SentinelFrom(lines, i) ==
  IF \E j \in i..Len(lines) : lines[j] = <<ENTRY_END>>
  THEN CHOOSE j \in i..Len(lines) :
         lines[j] = <<ENTRY_END>> /\ \A k \in i..(j - 1) : lines[k] # <<ENTRY_END>>
  ELSE Len(lines)

\* C30: every Entry parse produces comes from a header line immediately
\* followed by a metadata comment line that carries the path and the
\* fingerprint, which it takes from that comment, and its block runs from
\* the header line to the next sentinel line (to the end of the body when no
\* sentinel follows); the first such pair of lines of a body does produce an
\* Entry, and a body without such a pair produces none; parse returns for
\* every body.
C30_ParseRecognisesBlocks ==
  Parsed =>
    LET lines == splitlines(input.text)
        starts == {i \in 1..Len(lines) : StartsBlock(lines, i)}
    IN /\ \A rel \in DOMAIN output[1] :
            \E i \in starts :
              LET m == strip(lines[i + 1])[1]
                  j == SentinelFrom(lines, i + 2)
              IN /\ (m \div 100) % 10 = rel
                 /\ output[1][rel].rel_path = rel
                 /\ output[1][rel].sha256 = (m \div 10) % 10
                 /\ output[1][rel].block = join(<<NL>>, SubSeq(lines, i, j))
       /\ starts = {} <=> output[1] = EmptyMap
       /\ \A i \in starts :
            (\A k \in starts : i <= k) =>
              (strip(lines[i + 1])[1] \div 100) % 10 \in DOMAIN output[1]

\* a body with text before a complete block: one Entry, the text skipped
C30_Witness ==
  /\ Parsed
  /\ input.text # <<>> /\ input.text[1] = Prose(3)
  /\ DOMAIN output[1] = {1}
  /\ output[1][1].block[Len(output[1][1].block)] = ENTRY_END

\* C31: a block rendered for a session with fingerprint f and status s is
\* parsed, from a managed body that contains it, as an Entry keyed by the
\* path of the session with fingerprint f, status s and the rendered block as
\* its text, and the next run skips the session when s is ok and its
\* transcript is unchanged.
C31_RenderedBlockParsesBack ==
  (input.fn = "render_entry, parse_existing_entries" /\ output # <<>>) =>
    LET rel == input.rel_path
        f == sha256_file(input.content)
        entries == output[1].entries
    IN /\ rel \in DOMAIN entries
       /\ entries[rel].sha256 = f
       /\ entries[rel].status = input.status
       /\ entries[rel].block = output[1].block
       /\ input.status = "ok" => loop_skips(entries, rel, f, FALSE)

\* the managed region the run found holds a block of no transcript or text
\* outside every block
StartHasLeftovers ==
  /\ StartRegion.r = "ok"
  /\ \/ ~(DOMAIN StartEntries \subseteq Items)
     \/ ~OrderedBlocks(StartRegion.middle)

\* C32: once a run has written the ledger, the managed region holds no
\* block for a path that is not among the transcripts found and no text
\* outside the entry blocks; a run that recomputes nothing does not write the
\* ledger, and the file stays as the run found it, such content included.
C32_FirstWriteDropsLeftovers ==
  (InLoopOrAfter /\ (nwrites.sessions > 0 \/ updates = <<>>)) =>
    LET found == StartRegion
        region == DiskRegion
        body == region.middle
        entries == parse_existing_entries(body)
        paths == HeaderPaths(body)
    IN found.r = "ok" =>
         /\ nwrites.sessions > 0 =>
              /\ region.r = "ok"
              /\ DOMAIN entries \subseteq Items
              /\ DOMAIN entries = {paths[i] : i \in 1..Len(paths)}
              /\ \A i \in 1..Len(paths) : \A j \in 1..Len(paths) :
                   i < j => paths[i] < paths[j]
              /\ strip(body) =
                   join(<<NL, NL>>, [i \in 1..Len(paths) |-> entries[paths[i]].block])
              /\ \A i \in 1..Len(body) : KindOf(body[i]) # 9
         /\ updates = <<>> =>
              /\ nwrites.sessions = 0
              /\ fs.sessions = start.sessions

\* a run that wrote the ledger over a region with leftovers
C32_Witness ==
  /\ InLoopOrAfter /\ StartHasLeftovers
  /\ nwrites.sessions = 1
  /\ DiskRegion.middle # StartRegion.middle

\* the run ended in the journal step without a journal: the collaborator
\* failed or its answer held no journal_markdown string
JournalFailed ==
  pc = "idle" /\ exit = 1 /\ report = "Generating condensed journal..."

\* C33: when the condensation collaborator fails or answers without a
\* journal_markdown string, the step changes no file; the journal file is
\* the one the run found, and the ledger is the text of the last write of the
\* run (all blocks, one write per recomputed transcript) or, without a
\* write, the file the run found.
C33_JournalFailureKeepsFiles ==
  /\ [][(pc = "jcall" /\ exit' = 1) => (fs' = fs /\ nwrites' = nwrites)]_vars
  /\ [](JournalFailed =>
          /\ nwrites.journal = 0
          /\ fs.journal = start.journal
          /\ nwrites.sessions = Cardinality(done)
          /\ IF done = {}
             THEN fs.sessions = start.sessions
             ELSE fs.sessions =
                    write_atomic(fs, "sessions",
                      render_summary(before, after, history_order, blocks)).sessions)

\* the journal step failed after the run had rewritten the ledger, with a
\* journal on disk
C33_Witness ==
  /\ JournalFailed
  /\ nwrites.sessions > 0
  /\ fs.sessions # start.sessions
  /\ fs.journal # ENOENT

\* the per-item loop has finished over all transcripts
LoopFinished == idx > Len(history_files)

\* C34: a run writes the journal file at most once, and only in the journal
\* step, which begins after the per-item loop has finished over all
\* transcripts; a run interrupted in the loop neither calls the condensation
\* collaborator nor writes the journal.
C34_JournalAfterLoopOnce ==
  /\ [](nwrites.journal <= 1)
  /\ [][fs'.journal # fs.journal =>
          /\ pc = "jcall" /\ LoopFinished
          /\ nwrites.journal = 0 /\ nwrites'.journal = 1]_vars
  /\ [](pc = "jcall" => LoopFinished /\ nwrites.journal = 0)
  /\ [][(pc \in {"loop", "call"} /\ exit' = 130) =>
          (pc' = "idle" /\ report' = "none")]_vars
  /\ [](Interrupted => /\ ~JournalAttempted
                       /\ nwrites.journal = 0
                       /\ fs.journal = start.journal)

\* a run that wrote the journal after recomputing every transcript
C34_Witness ==
  /\ pc = "idle" /\ report = "Updated journal."
  /\ nwrites.journal = 1
  /\ LoopFinished
  /\ done = Items

\* C35: once the collaborator has succeeded for a transcript, the ledger
\* holds a status=ok Entry for its path with its current fingerprint, and a
\* later run without --force on the unchanged transcript does not summarize
\* it again.
C35_SucceededItemIsSettled ==
  (input.fn = "iteration" /\ output # <<>> /\ input.response \in Answers) =>
    LET rel == input.rel_path
        entries == output[1].entries
    IN /\ rel \in DOMAIN entries
       /\ entries[rel].status = "ok"
       /\ entries[rel].sha256 = sha256_file(input.content)
       /\ output[1].skipped

\* a dry run that found nothing to update and came to its end
DryRunWithoutUpdates ==
  /\ runs > 0 /\ args.dry_run /\ pc = "idle" /\ exit = 0
  /\ Partitioned /\ updates = <<>>
\* the run with the same flags except --dry-run, on the same files, calls
\* the condensation collaborator: with nothing to update it holds the blocks
\* of the entries it parsed when it decides about the journal
RealRunRegenerates ==
  /\ ~args.no_journal
  /\ needs_journal(args.force_journal,
                   sha256_text(sessions_body_of(history_order,
                                                blocks_of(existing_entries))),
                   StartJournalSha)

\* C36: when no transcript needs an update, a dry run announces that the
\* journal would be regenerated exactly when the run with the same flags
\* without --dry-run, on the same ledger, journal and transcripts,
\* regenerates the journal.
C36_DryRunAnnouncesJournal ==
  DryRunWithoutUpdates =>
    (report = "Would regenerate journal." <=> RealRunRegenerates)

====
